---- MODULE Spec2Model ----
(***************************************************************************)
(* Model of the procedural logic of the workshop notebooks:                *)
(*   - the searchlight cells of machine_learning_nilearn_and_pymvpa.ipynb  *)
(*     (fill_in_scattered_results and the sphere_searchlight call),        *)
(*   - the label / chunk cells shared by both machine-learning notebooks,  *)
(*   - the seeded train/test split cells of the neural-network notebook.   *)
(*                                                                         *)
(* Arrays keep the zero-based indexing of the source: an array of length n *)
(* is a function with domain 0..n-1.  Floating-point scores are exact      *)
(* rationals <<numerator, denominator>>; rounding is not modelled.         *)
(***************************************************************************)
EXTENDS Integers, Sequences, FiniteSets, TLC

\* ------------------------------------------------------------------ bounds
\* Number of voxels of the one-dimensional grid the mask is drawn from.
MaxGrid == 4
\* Largest sphere radius (in voxels) drawn for the searchlight.
MaxRadius == 1
\* Largest step between sphere centers (nth_element) drawn.
MaxStep == 3
\* Accuracies returned by the evaluator are drawn from 0..MaxScore.
MaxScore == 1
\* Largest number of samples (output channels) one searchlight result carries.
MaxChannels == 2
\* Largest number of parallel jobs (sl.nproc) drawn.
MaxProc == 2
\* Number of voxels of the grid when the aggregation is repeated.
MaxGridTwice == 3
\* Number of voxels of the grid when the run is scheduled fairly.
MaxGridFair == 3

\* Largest block length drawn for generate_labels.
MaxBlock == 3
\* Longest condition sequence drawn for generate_labels.
MaxConds == 2
\* Largest number of cycles drawn for generate_labels.
MaxCycles == 3
\* Largest chunk length drawn for generate_chunks.
MaxChunkSize == 4
\* Largest number of chunks drawn for generate_chunks.
MaxChunks == 3
\* Largest number of samples (data.shape[0]) drawn for the train/test split.
MaxN == 8
\* Largest seed drawn for seed(...).
MaxSeed == 3

\* --------------------------------------------------------------- constants
\* ['closed'] * 4, ['open'] * 4
BlockSize == 4
\* for i in range(48)
NCycles == 48
\* [i] * 64
ChunkSize == 64
\* for i in range(6)
NChunks == 6
\* The condition names of the block design.
Conditions == {"closed", "open"}
\* mask_test = chunks == 5
TestChunk == 5

\* ------------------------------------------------------------- python bits
\* Python's None.
None == <<>>

\* range with the stop value included.
RECURSIVE Range_inclusive(_, _, _)
Range_inclusive(start, stop, step) ==
    IF start > stop THEN <<>>
    ELSE <<start>> \o Range_inclusive(start + step, stop, step)

\* range(start, stop, step) for step > 0, as a sequence.
RECURSIVE Range(_, _, _)
Range(start, stop, step) ==
    IF start >= stop THEN <<>>
    ELSE <<start>> \o Range(start + step, stop, step)

\* The elements of a set of integers in ascending order.
RECURSIVE SortedSeq(_)
SortedSeq(S) ==
    IF S = {} THEN <<>>
    ELSE LET m == CHOOSE x \in S : \A y \in S : x <= y
         IN <<m>> \o SortedSeq(S \ {m})

Abs(x) == IF x < 0 THEN -x ELSE x

\* xs * n for a list xs: n copies of xs one after the other, [] for n <= 0.
RECURSIVE ListMul(_, _)
ListMul(xs, n) ==
    IF n <= 0 THEN <<>> ELSE xs \o ListMul(xs, n - 1)

\* A list as a zero-based array.
ToArray(xs) == [i \in 0 .. Len(xs) - 1 |-> xs[i + 1]]

\* The set of elements of an array.
Image(arr) == {arr[i] : i \in DOMAIN arr}
Min(a, b) == IF a <= b THEN a ELSE b

\* Exact rationals standing for the float entries of resmap.
RatAddInt(q, i) == <<q[1] + i * q[2], q[2]>>
RatDivInt(q, i) == <<q[1], q[2] * i>>
RatEq(p, q) == p[1] * q[2] = q[1] * p[2]

\* ----------------------------------------------------------------- state
VARIABLES
    \* searchlight notebook
    mask,            \* voxels kept by get_mask('both'): the features of ds
    sphere_radius,   \* sphere_radius
    nth_element,     \* nth_element
    nchannels,       \* len(res): samples one searchlight result carries
    nproc,           \* sl.nproc
    sl_phase,        \* phase of the searchlight run
    sl_error,        \* exception that ended the run, "none" otherwise
    center_ids,      \* center_ids handed to sphere_searchlight
    roi_pos,         \* per job: how many centers of its block it has taken
    results,         \* per job: the block of results it has produced
    fx_results,      \* fill_in_scattered_results: its argument results
    resmap,          \* fill_in_scattered_results: resmap
    observ_counter,  \* fill_in_scattered_results: observ_counter
    res_i,           \* fill_in_scattered_results: results consumed by the loop
    sl_map,          \* sl_map = sl(ds)
    \* label and chunk cells
    block_size,          \* length of one block of a condition
    condition_sequence,  \* the conditions of one cycle, in order
    n_cycles,            \* number of cycles
    chunk_size,          \* length of one chunk
    n_chunks,            \* number of chunks
    labels,              \* labels
    chunks,              \* chunks
    folds,               \* train/test sample sets cross_val_score works on
    mask_test,           \* mask_test
    mask_train,          \* mask_train
    y_train,             \* y_train
    y_test,              \* y_test
    lc_pc,               \* last label/chunk cell that ran
    \* train/test split cells
    seed_arg,        \* argument of seed(...)
    rng,             \* state of the global generator of numpy.random
    N,               \* N = data.shape[0]
    indices,         \* indices
    indices_train,   \* indices_train
    indices_test,    \* indices_test
    X_train,         \* X_train
    X_test,          \* X_test
    nn_y_train,      \* y_train of the neural-network notebook
    nn_y_test,       \* y_test of the neural-network notebook
    sp_pc            \* last split cell that ran

sl_config == <<mask, sphere_radius, nth_element, nchannels, nproc>>

lc_config == <<block_size, condition_sequence, n_cycles, chunk_size, n_chunks>>

sl_vars == <<mask, sphere_radius, nth_element, nchannels, nproc, sl_phase,
             sl_error, center_ids, roi_pos, results, fx_results, resmap,
             observ_counter, res_i, sl_map>>

lc_vars == <<block_size, condition_sequence, n_cycles, chunk_size, n_chunks,
             labels, chunks, folds, mask_test, mask_train, y_train, y_test,
             lc_pc>>

sp_vars == <<seed_arg, rng, N, indices, indices_train, indices_test, X_train,
             X_test, nn_y_train, nn_y_test, sp_pc>>

vars == <<sl_vars, lc_vars, sp_vars>>

\* ------------------------------------------------------------- the dataset
\* ds.nfeatures: one feature per voxel of the mask.
nfeatures == Cardinality(mask)
FeatureIds == 0 .. nfeatures - 1

\* Sphere without clipping: every index within sphere_radius of the center,
\* whether or not it is a feature of the dataset.
Sphere_unclipped(c) == c - sphere_radius .. c + sphere_radius

\* roi_feature_ids of the sphere centered on feature c: the features whose
\* voxel lies within sphere_radius of the center's voxel.  Features are the
\* masked voxels in grid order; voxels outside the grid or the mask are no
\* features and so never part of a sphere.
Sphere(c) ==
    LET voxels == SortedSeq(mask)
    IN {f \in FeatureIds : Abs(voxels[f + 1] - voxels[c + 1]) <= sphere_radius}

\* CenterIds starting one step in:
\* range(nth_element, ds.shape[1], nth_element)
CenterIds_fromStep == Range(nth_element, nfeatures, nth_element)

\* CenterIds starting on the second feature: range(1, ds.shape[1], nth_element)
CenterIds_fromOne == Range(1, nfeatures, nth_element)

\* center_ids=range(0, ds.shape[1], nth_element)
CenterIds == Range(0, nfeatures, nth_element)

\* The block of centers job w (1..nproc) works through: the center list cut
\* into nproc contiguous blocks of near-equal length.
BlockOf(w) ==
    LET n == Len(center_ids)
        q == n \div nproc
        r == n % nproc
        first == (w - 1) * q + Min(w - 1, r)
        size == q + (IF w <= r THEN 1 ELSE 0)
    IN SubSeq(center_ids, first + 1, first + size)

\* A searchlight result: nchannels samples and the features of its sphere.
\* Channel ch of the result for evaluator outcome `score` carries
\* (score + ch) % (MaxScore + 1), so channels of one result differ.
Result(c, score) ==
    [center |-> c,
     samples |-> [ch \in 0 .. nchannels - 1 |-> (score + ch) % (MaxScore + 1)],
     roi_feature_ids |-> Sphere(c)]

\* ------------------------------------------------ fill_in_scattered_results
\* Flatten walking the block of the first job only.
Flatten_first(blocks) == IF blocks = <<>> THEN <<>> ELSE Head(blocks)

\* for resblock in results: for res in resblock -- the order of the loop.
RECURSIVE Flatten(_)
Flatten(blocks) ==
    IF blocks = <<>> THEN <<>>
    ELSE Head(blocks) \o Flatten(Tail(blocks))

\* np.zeros((len(res), dataset.nfeatures), dtype=res.samples.dtype)
ZeroMap(res) ==
    [ch \in DOMAIN res.samples |-> [f \in FeatureIds |-> <<0, 1>>]]

\* np.zeros(dataset.nfeatures, dtype=int)
ZeroCounter == [f \in FeatureIds |-> 0]

\* Project with the sum lost: resmap[:, ids] = res.samples
Project_assign(rm, res) ==
    [ch \in DOMAIN rm |->
        [f \in DOMAIN rm[ch] |->
            IF f \in res.roi_feature_ids
            THEN <<res.samples[ch], 1>>
            ELSE rm[ch][f]]]

\* resmap[:, res.a.roi_feature_ids] += res.samples
Project(rm, res) ==
    [ch \in DOMAIN rm |->
        [f \in DOMAIN rm[ch] |->
            IF f \in res.roi_feature_ids
            THEN RatAddInt(rm[ch][f], res.samples[ch])
            ELSE rm[ch][f]]]

\* Observe counting at the center only: observ_counter[center] += 1
Observe_centerOnly(oc, res) ==
    [f \in DOMAIN oc |-> IF f = res.center THEN oc[f] + 1 ELSE oc[f]]

\* Observe counting one observation per sample of the result:
\* observ_counter[ids] += len(res)
Observe_perSample(oc, res) ==
    [f \in DOMAIN oc |->
        IF f \in res.roi_feature_ids
        THEN oc[f] + Cardinality(DOMAIN res.samples)
        ELSE oc[f]]

\* observ_counter[res.a.roi_feature_ids] += 1
Observe(oc, res) ==
    [f \in DOMAIN oc |->
        IF f \in res.roi_feature_ids THEN oc[f] + 1 ELSE oc[f]]

\* Average dividing by one more than the count:
\* resmap[:, observ_mask] /= observ_counter[observ_mask] + 1
Average_plusOne(rm, oc) ==
    [ch \in DOMAIN rm |->
        [f \in DOMAIN rm[ch] |->
            IF oc[f] > 0 THEN RatDivInt(rm[ch][f], oc[f] + 1) ELSE rm[ch][f]]]

\* Average without the mask: resmap /= observ_counter
Average_unmasked(rm, oc) ==
    [ch \in DOMAIN rm |->
        [f \in DOMAIN rm[ch] |-> RatDivInt(rm[ch][f], oc[f])]]

\* observ_mask = observ_counter > 0
\* resmap[:, observ_mask] /= observ_counter[observ_mask]
Average(rm, oc) ==
    [ch \in DOMAIN rm |->
        [f \in DOMAIN rm[ch] |->
            IF oc[f] > 0 THEN RatDivInt(rm[ch][f], oc[f]) ELSE rm[ch][f]]]

\* ----------------------------------------------------------------- actions
\* sphere_searchlight(...): the center list is fixed and cut into blocks.
EnumerateCenters ==
    /\ sl_phase = "configured"
    /\ center_ids' = CenterIds
    /\ sl_phase' = "enumerated"
    /\ UNCHANGED <<lc_vars, sp_vars, sl_config, sl_error,
                   roi_pos, results, fx_results, resmap, observ_counter,
                   res_i, sl_map>>

\* Job w has centers of its block left.
Pending(w) == roi_pos[w] < Len(BlockOf(w))

\* sl(ds): job w evaluates the next sphere of its block and keeps the result.
Evaluate(w, score) ==
    /\ sl_phase \in {"enumerated", "evaluating"}
    /\ Pending(w)
    /\ results' = [results EXCEPT
                     ![w] = Append(@, Result(BlockOf(w)[roi_pos[w] + 1], score))]
    /\ roi_pos' = [roi_pos EXCEPT ![w] = @ + 1]
    /\ sl_phase' = "evaluating"
    /\ UNCHANGED <<lc_vars, sp_vars, sl_config, sl_error, center_ids,
                   fx_results, resmap, observ_counter, res_i, sl_map>>

\* EvaluateFails with the exception swallowed: the sphere is skipped and the
\* job goes on with the next center.
EvaluateFails_skip(w) ==
    /\ sl_phase \in {"enumerated", "evaluating"}
    /\ roi_pos[w] < Len(BlockOf(w))
    /\ roi_pos' = [roi_pos EXCEPT ![w] = @ + 1]
    /\ sl_phase' = "evaluating"
    /\ UNCHANGED <<lc_vars, sp_vars, sl_config, sl_error,
                   center_ids, results, fx_results, resmap, observ_counter,
                   res_i, sl_map>>

\* sl(ds): the evaluator raises on the next sphere of job w; the exception
\* leaves sl(ds) and the cell, sl_map is never assigned.
EvaluateFails(w) ==
    /\ sl_phase \in {"enumerated", "evaluating"}
    /\ Pending(w)
    /\ sl_phase' = "failed"
    /\ sl_error' = "EvaluationError"
    /\ UNCHANGED <<lc_vars, sp_vars, sl_config, center_ids, roi_pos, results,
                   fx_results, resmap, observ_counter, res_i, sl_map>>

\* AllJobsDone without the barrier: one finished job is enough.
AllJobsDone_any == \E w \in 1 .. nproc : ~Pending(w)

\* AllJobsDone waiting for one center more than a block holds.
AllJobsDone_strict == \A w \in 1 .. nproc : roi_pos[w] > Len(BlockOf(w))

\* Every job has worked through its block.
AllJobsDone == \A w \in 1 .. nproc : ~Pending(w)

\* results_fx=fill_in_scattered_results is called with the blocks of all jobs;
\* resmap = None.
CallResultsFx ==
    /\ sl_phase \in {"enumerated", "evaluating"}
    /\ AllJobsDone
    /\ sl_phase' = "aggregating"
    /\ fx_results' = results
    /\ resmap' = None
    /\ observ_counter' = None
    /\ res_i' = 0
    /\ UNCHANGED <<lc_vars, sp_vars, sl_config, sl_error,
                   center_ids, roi_pos, results, sl_map>>

\* One pass of the loop body for the next res.
AddResult ==
    /\ sl_phase = "aggregating"
    /\ res_i < Len(Flatten(fx_results))
    /\ LET res == Flatten(fx_results)[res_i + 1]
           rm == IF resmap = None THEN ZeroMap(res) ELSE resmap
           oc == IF resmap = None THEN ZeroCounter ELSE observ_counter
       IN /\ resmap' = Project(rm, res)
          /\ observ_counter' = Observe(oc, res)
    /\ res_i' = res_i + 1
    /\ UNCHANGED <<lc_vars, sp_vars, sl_config, sl_phase, sl_error,
                   center_ids, roi_pos, results, fx_results, sl_map>>

\* Finalize taken as soon as one result has been added, with results still
\* waiting in the list.
Finalize_early ==
    /\ sl_phase = "aggregating"
    /\ res_i > 0
    /\ sl_phase' = "finalizing"
    /\ resmap' = Average(resmap, observ_counter)
    /\ UNCHANGED <<lc_vars, sp_vars, sl_config, sl_error, center_ids, roi_pos,
                   results, fx_results, observ_counter, res_i, sl_map>>

\* After the loop: the division by the observation counts.  With no result
\* processed observ_counter was never bound and its first use raises.
Finalize ==
    /\ sl_phase = "aggregating"
    /\ res_i = Len(Flatten(fx_results))
    /\ IF resmap = None
       THEN /\ sl_phase' = "failed"
            /\ sl_error' = "NameError"
            /\ UNCHANGED resmap
       ELSE /\ sl_phase' = "finalizing"
            /\ resmap' = Average(resmap, observ_counter)
            /\ UNCHANGED sl_error
    /\ UNCHANGED <<lc_vars, sp_vars, sl_config, center_ids, roi_pos, results,
                   fx_results, observ_counter, res_i, sl_map>>

\* result_ds = Dataset(resmap, fa={'observations': observ_counter}); return;
\* sl_map = sl(ds)
ReturnResult ==
    /\ sl_phase = "finalizing"
    /\ sl_map' = [samples |-> resmap, observations |-> observ_counter]
    /\ sl_phase' = "done"
    /\ UNCHANGED <<lc_vars, sp_vars, sl_config, sl_error, center_ids, roi_pos,
                   results, fx_results, resmap, observ_counter, res_i>>

\* The orders in which a list of n results can be handed over.
Orders(n) ==
    {p \in [1 .. n -> 1 .. n] : \A i, j \in 1 .. n : p[i] = p[j] => i = j}

\* CallAgain with the accumulators of the previous call still bound, as if
\* resmap and observ_counter lived outside the function.
CallAgain_keep(order) ==
    /\ sl_phase = "done"
    /\ order \in Orders(Len(Flatten(results)))
    /\ sl_phase' = "aggregating"
    /\ fx_results' = << [i \in DOMAIN order |-> Flatten(results)[order[i]]] >>
    /\ res_i' = 0
    /\ UNCHANGED <<lc_vars, sp_vars, sl_config, sl_error, center_ids, roi_pos,
                   results, resmap, observ_counter, sl_map>>

\* fill_in_scattered_results is called once more on the results of the same
\* centers (the evaluator is deterministic, so evaluating them again yields
\* the same results), handed over in the given order.  resmap and
\* observ_counter are locals: the call starts with resmap = None.
CallAgain(order) ==
    /\ sl_phase = "done"
    /\ order \in Orders(Len(Flatten(results)))
    /\ sl_phase' = "aggregating"
    /\ fx_results' = << [i \in DOMAIN order |-> Flatten(results)[order[i]]] >>
    /\ resmap' = None
    /\ observ_counter' = None
    /\ res_i' = 0
    /\ UNCHANGED <<lc_vars, sp_vars, sl_config, sl_error, center_ids, roi_pos,
                   results, sl_map>>

\* ------------------------------------------------------------ specification
\* The label/chunk cells play no part in this run.
LcIdle ==
    /\ block_size = 0
    /\ condition_sequence = <<>>
    /\ n_cycles = 0
    /\ chunk_size = 0
    /\ n_chunks = 0
    /\ labels = <<>>
    /\ chunks = <<>>
    /\ folds = <<>>
    /\ mask_test = <<>>
    /\ mask_train = <<>>
    /\ y_train = <<>>
    /\ y_test = <<>>
    /\ lc_pc = "idle"

\* The split cells play no part in this run.
SpIdle ==
    /\ seed_arg = 0
    /\ rng = 0
    /\ N = 0
    /\ indices = <<>>
    /\ indices_train = <<>>
    /\ indices_test = <<>>
    /\ X_train = <<>>
    /\ X_test = <<>>
    /\ nn_y_train = <<>>
    /\ nn_y_test = <<>>
    /\ sp_pc = "idle"

\* The searchlight cells play no part in this run.
SlIdle ==
    /\ mask = {}
    /\ sphere_radius = 0
    /\ nth_element = 1
    /\ nchannels = 1
    /\ nproc = 1
    /\ sl_phase = "idle"
    /\ sl_error = "none"
    /\ center_ids = <<>>
    /\ roi_pos = <<0>>
    /\ results = << <<>> >>
    /\ fx_results = <<>>
    /\ resmap = None
    /\ observ_counter = None
    /\ res_i = 0
    /\ sl_map = None

Init ==
    /\ LcIdle
    /\ SpIdle
    /\ mask \in SUBSET (0 .. MaxGrid - 1)
    /\ sphere_radius \in 0 .. MaxRadius
    /\ nth_element \in 1 .. MaxStep
    /\ nchannels \in 1 .. MaxChannels
    /\ nproc \in 1 .. MaxProc
    /\ sl_phase = "configured"
    /\ sl_error = "none"
    /\ center_ids = <<>>
    /\ roi_pos = [w \in 1 .. nproc |-> 0]
    /\ results = [w \in 1 .. nproc |-> <<>>]
    /\ fx_results = <<>>
    /\ resmap = None
    /\ observ_counter = None
    /\ res_i = 0
    /\ sl_map = None

Next ==
    \/ EnumerateCenters
    \/ \E w \in 1 .. nproc : \E score \in 0 .. MaxScore : Evaluate(w, score)
    \/ \E w \in 1 .. nproc : EvaluateFails(w)
    \/ CallResultsFx
    \/ AddResult
    \/ Finalize
    \/ ReturnResult

Spec == Init /\ [][Next]_vars

\* The searchlight cells on the smaller grid, one sample per result
\* (postproc=mean_sample()).
InitFair ==
    /\ Init
    /\ mask \subseteq 0 .. MaxGridFair - 1
    /\ nchannels = 1

\* One step of job w: its next evaluator call returns a score or raises.
JobStep(w) ==
    /\ w <= nproc
    /\ \/ \E score \in 0 .. MaxScore : Evaluate(w, score)
       \/ EvaluateFails(w)

\* The searchlight cells under fair scheduling: every job with centers left
\* gets its next evaluator call scheduled and the call returns or raises, and
\* the code of the cell itself goes on whenever it can.
SpecFair ==
    /\ InitFair
    /\ [][Next]_vars
    /\ \A w \in 1 .. MaxProc : WF_vars(JobStep(w))
    /\ WF_vars(EnumerateCenters \/ CallResultsFx \/ AddResult
                  \/ Finalize \/ ReturnResult)

\* The searchlight cells, with the aggregation repeated on the same results:
\* one job (sl.nproc = 1) and one sample per result (postproc=mean_sample()),
\* as the notebook configures them.
InitTwice ==
    /\ Init
    /\ mask \subseteq 0 .. MaxGridTwice - 1
    /\ nproc = 1
    /\ nchannels = 1

NextTwice ==
    \/ Next
    \/ /\ sl_phase = "done"
       /\ \E order \in Orders(Len(Flatten(results))) : CallAgain(order)

SpecTwice == InitTwice /\ [][NextTwice]_vars

\* ------------------------------------------------- searchlight properties
\* The results in the order fill_in_scattered_results walks them.
AllResults == Flatten([w \in 1 .. nproc |-> results[w]])

\* The sphere of every center, in the order of center_ids.
CenterSpheres == [j \in 1 .. Len(center_ids) |-> Sphere(center_ids[j])]

\* The centers, among those with spheres sph, whose sphere contains feature f.
CoveringIn(sph, f) == {j \in DOMAIN sph : f \in sph[j]}

\* The results, among all, whose roi_feature_ids contain feature f.
ResultsCoveringIn(all, f) ==
    {i \in DOMAIN all : f \in all[i].roi_feature_ids}

\* Sum of sample ch over the results of all with index in S.
RECURSIVE SumIn(_, _, _)
SumIn(all, S, ch) ==
    IF S = {} THEN 0
    ELSE LET i == CHOOSE x \in S : TRUE
         IN all[i].samples[ch] + SumIn(all, S \ {i}, ch)

CentersCovering(f) == CoveringIn(CenterSpheres, f)
ResultsCovering(f) == ResultsCoveringIn(AllResults, f)
SumOfResults(S, ch) == SumIn(AllResults, S, ch)

\* The map is finalized: the division has been done.
Finalized == sl_phase \in {"finalizing", "done"}

\* C1: once all results have been added and the map is finalized, a feature
\* covered by k >= 1 spheres has observation count k and, in every channel, a
\* score equal to the arithmetic mean of the k results of those spheres.
C1_MeanOfCovering ==
    Finalized =>
        LET all == AllResults
            sph == CenterSpheres
        IN \A f \in FeatureIds :
              LET k == Cardinality(CoveringIn(sph, f))
                  covering == ResultsCoveringIn(all, f)
              IN k >= 1 =>
                  /\ observ_counter[f] = k
                  /\ Cardinality(covering) = k
                  /\ \A ch \in 0 .. nchannels - 1 :
                        /\ resmap[ch][f][2] # 0
                        /\ RatEq(resmap[ch][f], <<SumIn(all, covering, ch), k>>)
                  /\ sl_phase = "done" =>
                        /\ sl_map.observations[f] = k
                        /\ \A ch \in 0 .. nchannels - 1 :
                              sl_map.samples[ch][f] = resmap[ch][f]

\* A finished run in which some feature lies in two spheres whose results
\* differ, so that its mean is no result of either.
C1_Witness ==
    /\ sl_phase = "done"
    /\ \E f \in FeatureIds :
          /\ Cardinality(CentersCovering(f)) = 2
          /\ SumOfResults(ResultsCovering(f), 0) = 1
          /\ sl_map.samples[0][f] = <<1, 2>>

\* Entries of the accumulators, read as zero before they are allocated.
SumAt(rm, ch, f) == IF rm = None THEN <<0, 1>> ELSE rm[ch][f]
CountAt(oc, f) == IF oc = None THEN 0 ELSE oc[f]

\* C8: a pass of the aggregation loop for one result raises the observation
\* count of every feature of its sphere by exactly one, whatever the number
\* of samples it carries, adds each sample to that channel's sum at those
\* features, and leaves every other feature's count and sums as they were.
C8_OneObservationPerResult ==
    [][(sl_phase = "aggregating" /\ res_i' = res_i + 1) =>
          LET res == AllResults[res_i + 1]
          IN \A f \in FeatureIds :
                IF f \in res.roi_feature_ids
                THEN /\ observ_counter'[f] = CountAt(observ_counter, f) + 1
                     /\ \A ch \in 0 .. nchannels - 1 :
                           RatEq(resmap'[ch][f],
                                 RatAddInt(SumAt(resmap, ch, f), res.samples[ch]))
                ELSE /\ observ_counter'[f] = CountAt(observ_counter, f)
                     /\ \A ch \in 0 .. nchannels - 1 :
                           resmap'[ch][f] = SumAt(resmap, ch, f)]_vars

\* Mid-loop: a result with two samples has been added; a feature of its
\* sphere has count 1 and another feature, outside it, still has count 0.
C8_Witness ==
    /\ sl_phase = "aggregating"
    /\ res_i = 1
    /\ nchannels = 2
    /\ AllResults[1].samples[0] # AllResults[1].samples[1]
    /\ \E f, g \in FeatureIds :
          /\ f \in AllResults[1].roi_feature_ids
          /\ g \notin AllResults[1].roi_feature_ids
          /\ observ_counter[f] = 1
          /\ observ_counter[g] = 0
          /\ resmap[1][f] = <<AllResults[1].samples[1], 1>>

\* C9: finalizing divides only where the observation count is positive; a
\* feature no sphere covers has count 0 and score exactly 0 in the final map,
\* the same score as a covered feature whose mean is 0, from which only the
\* observation count tells it apart.
C9_UncoveredStayZero ==
    Finalized =>
        LET all == AllResults
            sph == CenterSpheres
            uncovered == {f \in FeatureIds : CoveringIn(sph, f) = {}}
            covered == FeatureIds \ uncovered
        IN /\ \A f \in uncovered :
                 /\ observ_counter[f] = 0
                 /\ \A ch \in 0 .. nchannels - 1 : resmap[ch][f] = <<0, 1>>
           /\ \A g \in covered :
                 /\ observ_counter[g] > 0
                 /\ \A ch \in 0 .. nchannels - 1 :
                       /\ resmap[ch][g][2] = observ_counter[g]
                       /\ SumIn(all, ResultsCoveringIn(all, g), ch) = 0 =>
                             \A f \in uncovered :
                                 /\ RatEq(resmap[ch][g], resmap[ch][f])
                                 /\ observ_counter[g] # observ_counter[f]

\* A finished run with a feature no sphere covered next to a covered feature
\* whose mean accuracy is 0.
C9_Witness ==
    /\ sl_phase = "done"
    /\ \E f, g \in FeatureIds :
          /\ CentersCovering(f) = {}
          /\ CentersCovering(g) # {}
          /\ sl_map.observations[f] = 0
          /\ sl_map.observations[g] > 0
          /\ sl_map.samples[0][f] = <<0, 1>>
          /\ RatEq(sl_map.samples[0][g], <<0, 1>>)

\* C10: a failing evaluator aborts the run.  The run is then in the failed
\* state with no score map and no observation counts, it never leaves that
\* state, and whenever aggregation runs every center has its result: no
\* sphere was skipped.
C10_FailureAborts ==
    /\ [](sl_error = "EvaluationError" =>
            /\ sl_phase = "failed"
            /\ resmap = None
            /\ observ_counter = None
            /\ sl_map = None)
    /\ [](sl_phase \in {"aggregating", "finalizing", "done"} =>
            /\ sl_error = "none"
            /\ Len(AllResults) = Len(center_ids)
            /\ \A i \in 1 .. Len(center_ids) :
                  \E j \in 1 .. Len(AllResults) :
                      AllResults[j].center = center_ids[i])
    /\ [][sl_phase # "failed"]_vars

\* The evaluator fails after one job has delivered a result and while centers
\* are still waiting.
C10_Witness ==
    /\ sl_error = "EvaluationError"
    /\ sl_phase = "failed"
    /\ \E w \in 1 .. nproc : roi_pos[w] > 0
    /\ \E w \in 1 .. nproc : Pending(w)
    /\ sl_map = None

\* A step that adds a result to the accumulators or divides them.
AggregationStep ==
    \/ resmap' # resmap
    \/ observ_counter' # observ_counter
    \/ res_i' # res_i

\* C12: fill_in_scattered_results runs only after every job has finished its
\* block: while a center is still waiting or being evaluated the run is not
\* aggregating, finalizing or done, the accumulators are unallocated, and no
\* step adds to or divides the accumulators; the list the aggregation walks
\* holds one result per center.
C12_AggregationAfterBarrier ==
    /\ [](sl_phase \in {"aggregating", "finalizing", "done"} =>
            /\ AllJobsDone
            /\ Len(Flatten(fx_results)) = Len(center_ids))
    /\ []((\E w \in 1 .. nproc : Pending(w)) =>
            /\ resmap = None
            /\ observ_counter = None
            /\ res_i = 0)
    /\ [][AggregationStep => AllJobsDone /\ AllJobsDone']_vars

\* Two jobs, each with a block of its own, have finished and the aggregation
\* has added a result of each.
C12_Witness ==
    /\ nproc = 2
    /\ \A w \in 1 .. nproc : Len(results[w]) > 0
    /\ AllJobsDone
    /\ sl_phase = "aggregating"
    /\ res_i > Len(results[1])
    /\ resmap # None

\* C14: with radius 0 and step 1 every feature is a center and each sphere
\* is just its center; if the evaluator returned the same score for every
\* sphere, every feature of the finalized map has observation count 1 and,
\* in every channel, exactly that score.
C14_UnitSpheresConstantScore ==
    (Finalized /\ sphere_radius = 0 /\ nth_element = 1) =>
        LET all == AllResults
        IN (\A i, j \in 1 .. Len(all) : all[i].samples = all[j].samples) =>
              \A f \in FeatureIds :
                  /\ observ_counter[f] = 1
                  /\ \A ch \in DOMAIN resmap :
                        RatEq(resmap[ch][f], <<all[1].samples[ch], 1>>)

\* A finalized run with radius 0 and step 1 over three features or more,
\* every sphere scored with the same non-zero constant.
C14_Witness ==
    /\ sl_phase = "done"
    /\ sphere_radius = 0
    /\ nth_element = 1
    /\ nfeatures >= 3
    /\ \A i \in 1 .. Len(AllResults) :
          /\ AllResults[i].samples = AllResults[1].samples
          /\ AllResults[i].samples[0] > 0
          /\ AllResults[i].roi_feature_ids = {AllResults[i].center}

\* A repeated aggregation has reached the point where its maps are complete;
\* sl_map still holds the maps of the previous one.
SecondRunFinalized == sl_phase = "finalizing" /\ sl_map # None

WorkerStep == roi_pos' # roi_pos

\* C21: with several jobs evaluating concurrently the accumulators are
\* written by the aggregation alone: a step of a job only extends that job's
\* own block of results and leaves resmap and observ_counter untouched, and
\* under every interleaving of the jobs the final observation count of each
\* feature is the number of spheres covering it, as in a run with one job.
C21_SingleWriter ==
    /\ [][WorkerStep =>
            /\ resmap' = resmap
            /\ observ_counter' = observ_counter
            /\ \E w \in 1 .. nproc :
                  /\ Len(results'[w]) = Len(results[w]) + 1
                  /\ \A v \in (1 .. nproc) \ {w} : results'[v] = results[v]]_vars
    /\ [](Finalized =>
            LET sph == CenterSpheres
            IN \A f \in FeatureIds :
                  observ_counter[f] = Cardinality(CoveringIn(sph, f)))

\* A finished run of two jobs in which a feature lies in a sphere evaluated
\* by the first job and in a sphere evaluated by the second.
C21_Witness ==
    /\ nproc = 2
    /\ sl_phase = "done"
    /\ \E f \in FeatureIds :
          /\ \E i \in 1 .. Len(results[1]) : f \in results[1][i].roi_feature_ids
          /\ \E i \in 1 .. Len(results[2]) : f \in results[2][i].roi_feature_ids
          /\ sl_map.observations[f] >= 2

\* ceil(n / k) for k > 0.
CeilDiv(n, k) == (n + k - 1) \div k

\* C22: the center list is every nth_element-th feature index from 0 in
\* ascending order: {0, k, 2k, ...} within [0, nfeatures), ceil(nfeatures / k)
\* centers, each a feature of the masked dataset; the list is fixed by
\* nfeatures and k alone and, once built, stays as it is.
C22_EveryKthFeature ==
    /\ [](sl_phase # "configured" =>
            /\ Len(center_ids) = CeilDiv(nfeatures, nth_element)
            /\ \A j \in 1 .. Len(center_ids) :
                  /\ center_ids[j] = (j - 1) * nth_element
                  /\ center_ids[j] \in FeatureIds
            /\ \A i, j \in 1 .. Len(center_ids) :
                  i < j => center_ids[i] < center_ids[j]
            /\ {center_ids[j] : j \in 1 .. Len(center_ids)} =
                  {f \in FeatureIds : f % nth_element = 0})
    /\ [][sl_phase # "configured" => center_ids' = center_ids]_vars

\* Centers of a dataset whose size is a multiple of the step (3 or 4
\* features, step 2 or more): the last center is short of the end by the step.
C22_Witness ==
    /\ sl_phase = "enumerated"
    /\ nth_element >= 2
    /\ nfeatures % nth_element = 0
    /\ Len(center_ids) >= 2
    /\ center_ids[Len(center_ids)] = nfeatures - nth_element

\* C23: the sphere of every result holds only features of the dataset, that
\* is voxels inside the grid and inside the mask (and within the radius of
\* the center), also where the radius reaches past the edge of the grid; the
\* accumulators have exactly one entry per feature, so no coordinate outside
\* the grid or the mask receives a sum or a count, and a feature has a
\* non-zero count only if a processed result covers it.
C23_SpheresInBounds ==
    LET all == AllResults
        voxels == SortedSeq(mask)
    IN /\ \A i \in 1 .. Len(all) :
             /\ all[i].roi_feature_ids \subseteq FeatureIds
             /\ \A f \in all[i].roi_feature_ids :
                   /\ voxels[f + 1] \in mask
                   /\ voxels[f + 1] \in 0 .. MaxGrid - 1
                   /\ Abs(voxels[f + 1] - voxels[all[i].center + 1])
                         <= sphere_radius
       /\ (sl_phase \in {"aggregating", "finalizing", "done"} /\ res_i > 0) =>
             /\ DOMAIN observ_counter = FeatureIds
             /\ \A ch \in DOMAIN resmap : DOMAIN resmap[ch] = FeatureIds
             /\ \A f \in FeatureIds :
                   observ_counter[f] > 0 =>
                       \E i \in 1 .. res_i :
                           f \in Flatten(fx_results)[i].roi_feature_ids

\* A finished run with a sphere cut by the edge of the grid and by the mask:
\* its center is the first voxel of the grid, the radius reaches past the
\* edge, and a voxel within the radius is outside the mask.
C23_Witness ==
    /\ sl_phase = "done"
    /\ sphere_radius >= 1
    /\ 0 \in mask
    /\ 1 \notin mask
    /\ \E i \in 1 .. Len(AllResults) :
          /\ AllResults[i].center = 0
          /\ AllResults[i].roi_feature_ids = {0}
    /\ nfeatures >= 2

\* The changes of phase a run can make.  A run whose center list is empty
\* has nothing to evaluate and goes from enumerated to aggregating; a failure
\* ends the run from the phase it occurs in.
PhaseSteps ==
    {<<"configured", "enumerated">>,
     <<"enumerated", "evaluating">>,
     <<"enumerated", "aggregating">>,
     <<"enumerated", "failed">>,
     <<"evaluating", "aggregating">>,
     <<"evaluating", "failed">>,
     <<"aggregating", "finalizing">>,
     <<"aggregating", "failed">>,
     <<"finalizing", "done">>}

\* C24: a run changes phase only forwards along configured, enumerated,
\* evaluating, aggregating, finalizing, done (or ends in failed); the
\* division is the step from aggregating to finalizing, taken once and only
\* when every result of the list has been added; after it the accumulators
\* change no more, sl_map is unset until done, and once done is reached the
\* score map and the observation-count map never change again.
C24_PhaseOrder ==
    /\ [][/\ sl_phase' # sl_phase => <<sl_phase, sl_phase'>> \in PhaseSteps
          /\ (sl_phase # "finalizing" /\ sl_phase' = "finalizing") =>
                /\ res_i = Len(Flatten(fx_results))
                /\ res_i' = res_i
                /\ observ_counter' = observ_counter
          /\ sl_phase \in {"finalizing", "done"} =>
                /\ resmap' = resmap
                /\ observ_counter' = observ_counter
                /\ res_i' = res_i
          /\ sl_phase = "done" => sl_phase' = "done" /\ sl_map' = sl_map]_vars
    /\ [](sl_phase # "done" => sl_map = None)
    /\ [](sl_phase = "done" =>
            sl_map = [samples |-> resmap, observations |-> observ_counter])

\* A finished run whose division came after three additions.
C24_Witness ==
    /\ sl_phase = "done"
    /\ res_i >= 3
    /\ res_i = Len(Flatten(fx_results))
    /\ sl_map # None
    /\ \E f \in FeatureIds : sl_map.observations[f] >= 2

\* Sum of the observation counts oc over the features S.
RECURSIVE SumCounts(_, _)
SumCounts(oc, S) ==
    IF S = {} THEN 0
    ELSE LET f == CHOOSE x \in S : TRUE
         IN oc[f] + SumCounts(oc, S \ {f})

\* Sum of the sphere sizes of the first n results of the list all.
RECURSIVE SumSizes(_, _)
SumSizes(all, n) ==
    IF n = 0 THEN 0
    ELSE Cardinality(all[n].roi_feature_ids) + SumSizes(all, n - 1)

\* C27: at every point of the aggregation the accumulators agree with the
\* results processed so far: the observation counts add up to the sum of the
\* sphere sizes of the processed results, each count lies between 0 and the
\* number of results processed, and no step lowers a count.
C27_AccumulatorsConsistent ==
    /\ []((sl_phase \in {"aggregating", "finalizing", "done"} /\ res_i > 0) =>
            /\ SumCounts(observ_counter, FeatureIds) =
                  SumSizes(Flatten(fx_results), res_i)
            /\ \A f \in FeatureIds :
                  observ_counter[f] >= 0 /\ observ_counter[f] <= res_i)
    /\ [][\A f \in FeatureIds :
             CountAt(observ_counter', f) >= CountAt(observ_counter, f)]_vars

\* The aggregation is under way: two results processed, a third waiting, and
\* a feature counted twice next to one counted once.
C27_Witness ==
    /\ sl_phase = "aggregating"
    /\ res_i = 2
    /\ Len(Flatten(fx_results)) >= 3
    /\ \E f, g \in FeatureIds : observ_counter[f] = 2 /\ observ_counter[g] = 1

\* p <= q for rationals with positive denominators.
RatLe(p, q) == p[1] * q[2] <= q[1] * p[2]

C29_AllocatedBeforeDivision ==
    nfeatures >= 1 =>
        /\ sl_phase # "configured" =>
              Len(center_ids) >= 1 /\ center_ids[1] = 0
        /\ sl_error # "NameError"
        /\ sl_phase \in {"aggregating", "finalizing", "done"} =>
              /\ Len(Flatten(fx_results)) >= 1
              /\ res_i = 0 => (resmap = None /\ observ_counter = None)
              /\ res_i >= 1 => (resmap # None /\ observ_counter # None)
        /\ Finalized => (res_i >= 1 /\ resmap # None /\ observ_counter # None)

\* The division has run over a dataset of one feature: feature 0 is the only
\* center and its result the only one.
C29_Witness ==
    /\ nfeatures = 1
    /\ sl_phase = "finalizing"
    /\ center_ids = <<0>>
    /\ res_i = 1
    /\ observ_counter[0] = 1

\* The run is over: sl_map is assigned, or an exception has left the cell.
Terminal == sl_phase \in {"done", "failed"}

\* C30: under fair scheduling every run reaches a terminal state, and no run
\* stays in the evaluation or in the aggregation forever.
C30_Terminates ==
    /\ <>Terminal
    /\ (sl_phase \in {"evaluating", "aggregating"}) ~> Terminal

\* Two jobs have both evaluated spheres and the run has ended with sl_map
\* assigned.
C30_Witness ==
    /\ sl_phase = "done"
    /\ nproc = 2
    /\ \A w \in 1 .. 2 : Len(results[w]) >= 1
    /\ res_i = Len(center_ids)
    /\ sl_map # None

\* ======================================================= labels and chunks
\* [['closed'] * 4, ['open'] * 4]: one cycle, each condition block_size times.
RECURSIVE OneCycle(_, _)
OneCycle(bs, conds) ==
    IF conds = <<>> THEN <<>>
    ELSE ListMul(<<Head(conds)>>, bs) \o OneCycle(bs, Tail(conds))

\* generate_labels with the conditions tiled instead of repeated:
\* ['closed', 'open'] * 4 for every cycle.
generate_labels_tiled(bs, conds, n) ==
    ToArray(ListMul(ListMul(conds, bs), n))

\* generate_labels with the cycle starting on the last condition.
generate_labels_rotated(bs, conds, n) ==
    ToArray(ListMul(
        IF conds = <<>> THEN <<>>
        ELSE OneCycle(bs, <<conds[Len(conds)]>> \o SubSeq(conds, 1, Len(conds) - 1)),
        n))

\* labels = np.ravel([[['closed'] * 4, ['open'] * 4] for i in range(48)])
generate_labels(bs, conds, n) ==
    ToArray(ListMul(OneCycle(bs, conds), n))

\* [[i] * 64 for i in range(lo, hi)], flattened.
RECURSIVE ChunkRuns(_, _, _)
ChunkRuns(lo, hi, cs) ==
    IF lo >= hi THEN <<>>
    ELSE ListMul(<<lo>>, cs) \o ChunkRuns(lo + 1, hi, cs)

\* generate_chunks with two runs to a chunk id: [[i // 2] * 64 for i in range(6)]
generate_chunks_paired(cs, nc) ==
    LET runs == ChunkRuns(0, nc, cs)
    IN [i \in 0 .. Len(runs) - 1 |-> runs[i + 1] \div 2]

\* generate_chunks numbering the chunks from one: range(1, 7).
generate_chunks_fromOne(cs, nc) ==
    ToArray(ChunkRuns(1, nc + 1, cs))

\* generate_chunks with every boundary one sample early.
generate_chunks_early(cs, nc) ==
    LET runs == ChunkRuns(0, nc, cs)
    IN ToArray(IF runs = <<>> THEN <<>> ELSE Tail(runs) \o <<nc - 1>>)

\* chunks = np.ravel([[i] * 64 for i in range(6)])
generate_chunks(cs, nc) ==
    ToArray(ChunkRuns(0, nc, cs))

\* cv=LeaveOneGroupOut(), groups=chunks: one fold per group id, in ascending
\* order of the ids; the fold tests on the samples of that group and trains
\* on the samples of all others.
LeaveOneGroupOut(groups) ==
    LET ids == SortedSeq(Image(groups))
    IN [k \in 1 .. Len(ids) |->
           [test |-> {i \in DOMAIN groups : groups[i] = ids[k]},
            train |-> {i \in DOMAIN groups : groups[i] # ids[k]}]]

\* mask_test = chunks == 5
MaskTest(ch) == [i \in DOMAIN ch |-> ch[i] = TestChunk]

\* np.invert returning its argument.
Invert_same(m) == m

\* np.invert(mask_test) on a boolean array: elementwise not.
Invert(m) == [i \in DOMAIN m |-> ~m[i]]

\* arr[lo..hi] filtered by the boolean mask m, as a list (the range is
\* halved so that long arrays are walked without deep recursion).
RECURSIVE Select(_, _, _, _)
Select(arr, m, lo, hi) ==
    IF lo > hi THEN <<>>
    ELSE IF lo = hi THEN (IF m[lo] THEN <<arr[lo]>> ELSE <<>>)
    ELSE LET mid == (lo + hi) \div 2
         IN Select(arr, m, lo, mid) \o Select(arr, m, mid + 1, hi)

\* labels[mask]: the entries of arr at which the boolean mask is True, in
\* order.
BoolIndex(arr, m) == ToArray(Select(arr, m, 0, Cardinality(DOMAIN m) - 1))

\* The cell that builds labels.
LabelsCell ==
    /\ lc_pc = "start"
    /\ labels' = generate_labels(block_size, condition_sequence, n_cycles)
    /\ lc_pc' = "labels"
    /\ UNCHANGED <<sl_vars, sp_vars, lc_config, chunks, folds, mask_test,
                   mask_train, y_train, y_test>>

\* The cell that builds chunks.
ChunksCell ==
    /\ lc_pc = "labels"
    /\ chunks' = generate_chunks(chunk_size, n_chunks)
    /\ lc_pc' = "chunks"
    /\ UNCHANGED <<sl_vars, sp_vars, lc_config, labels, folds, mask_test,
                   mask_train, y_train, y_test>>

\* labels and chunks carry one entry per sample of the data.
OnePerSample == DOMAIN labels = DOMAIN chunks

\* cross_val_score(estimator=clf, X=samples, y=labels, groups=chunks,
\* cv=LeaveOneGroupOut(), ...): the folds the scores are computed on.  The
\* call is followed where labels and chunks have one entry per sample.
CrossValCell ==
    /\ lc_pc = "chunks"
    /\ OnePerSample
    /\ folds' = LeaveOneGroupOut(chunks)
    /\ lc_pc' = "cv"
    /\ UNCHANGED <<sl_vars, sp_vars, lc_config, labels, chunks, mask_test,
                   mask_train, y_train, y_test>>

\* mask_test = chunks == 5; mask_train = np.invert(mask_test)
MasksCell ==
    /\ lc_pc = "cv"
    /\ mask_test' = MaskTest(chunks)
    /\ mask_train' = Invert(MaskTest(chunks))
    /\ lc_pc' = "masks"
    /\ UNCHANGED <<sl_vars, sp_vars, lc_config, labels, chunks, folds,
                   y_train, y_test>>

\* y_train = labels[mask_train]; y_test = labels[mask_test]
ApplyMasksCell ==
    /\ lc_pc = "masks"
    /\ y_train' = BoolIndex(labels, mask_train)
    /\ y_test' = BoolIndex(labels, mask_test)
    /\ lc_pc' = "split"
    /\ UNCHANGED <<sl_vars, sp_vars, lc_config, labels, chunks, folds,
                   mask_test, mask_train>>

\* The configuration written into the notebooks.
NotebookConfig ==
    [block_size |-> BlockSize,
     condition_sequence |-> <<"closed", "open">>,
     n_cycles |-> NCycles,
     chunk_size |-> ChunkSize,
     n_chunks |-> NChunks]

\* Condition sequences of up to MaxConds conditions.
CondSeqs == UNION {[1 .. n -> Conditions] : n \in 0 .. MaxConds}

LabelConfigs ==
    {NotebookConfig} \cup
    [block_size : 0 .. MaxBlock,
     condition_sequence : CondSeqs,
     n_cycles : 0 .. MaxCycles,
     chunk_size : 0 .. MaxChunkSize,
     n_chunks : 0 .. MaxChunks]

InitLabels ==
    /\ SlIdle
    /\ SpIdle
    /\ \E cfg \in LabelConfigs :
          /\ block_size = cfg.block_size
          /\ condition_sequence = cfg.condition_sequence
          /\ n_cycles = cfg.n_cycles
          /\ chunk_size = cfg.chunk_size
          /\ n_chunks = cfg.n_chunks
    /\ labels = <<>>
    /\ chunks = <<>>
    /\ folds = <<>>
    /\ mask_test = <<>>
    /\ mask_train = <<>>
    /\ y_train = <<>>
    /\ y_test = <<>>
    /\ lc_pc = "start"

NextLabels ==
    \/ LabelsCell
    \/ ChunksCell
    \/ CrossValCell
    \/ MasksCell
    \/ ApplyMasksCell

SpecLabels == InitLabels /\ [][NextLabels]_vars

\* ---------------------------------------------- label and chunk properties
\* The parameters of generate_labels are valid: all positive.
ValidLabelConfig ==
    block_size > 0 /\ Len(condition_sequence) > 0 /\ n_cycles > 0

\* The parameters of generate_chunks are valid: both positive.
ValidChunkConfig == chunk_size > 0 /\ n_chunks > 0

\* The cell that builds labels has run.
LabelsBuilt == lc_pc \in {"labels", "chunks", "cv", "masks", "split"}

\* The cell that builds chunks has run.
ChunksBuilt == lc_pc \in {"chunks", "cv", "masks", "split"}

\* The run uses the configuration written into the notebooks.
IsNotebookConfig ==
    /\ block_size = BlockSize
    /\ condition_sequence = <<"closed", "open">>
    /\ n_cycles = NCycles
    /\ chunk_size = ChunkSize
    /\ n_chunks = NChunks

\* C4: for valid parameters the labels have length
\* block_size * len(condition_sequence) * n_cycles and each block
\* [j*block_size, (j+1)*block_size) of them is constant.
C4_LengthAndConstantBlocks ==
    (LabelsBuilt /\ ValidLabelConfig) =>
        /\ DOMAIN labels =
              0 .. block_size * Len(condition_sequence) * n_cycles - 1
        /\ \A j \in 0 .. Len(condition_sequence) * n_cycles - 1 :
              \A i \in j * block_size .. (j + 1) * block_size - 1 :
                  labels[i] = labels[j * block_size]

\* Labels of two cycles of two different conditions in blocks of two or more.
C4_Witness ==
    /\ LabelsBuilt
    /\ block_size >= 2
    /\ n_cycles >= 2
    /\ Len(condition_sequence) = 2
    /\ condition_sequence[1] # condition_sequence[2]
    /\ Cardinality(DOMAIN labels) = 2 * 2 * block_size
    /\ labels[0] = labels[block_size - 1]
    /\ labels[block_size - 1] # labels[block_size]

\* C5: the label of sample i is
\* condition_sequence[(i div block_size) mod len(condition_sequence)]; with
\* blocks of 4 over [closed, open] samples 0..3 are closed, 4..7 open, 8..11
\* closed, and so on through every cycle.
C5_AlternatingBlocks ==
    (LabelsBuilt /\ ValidLabelConfig) =>
        /\ \A i \in DOMAIN labels :
              labels[i] =
                  condition_sequence[
                      ((i \div block_size) % Len(condition_sequence)) + 1]
        /\ IsNotebookConfig =>
              /\ \A i \in 0 .. BlockSize * 2 * NCycles - 1 : i \in DOMAIN labels
              /\ \A i \in 0 .. 3 : labels[i] = "closed"
              /\ \A i \in 4 .. 7 : labels[i] = "open"
              /\ \A i \in 8 .. 11 : labels[i] = "closed"
              /\ \A c \in 0 .. NCycles - 1 :
                    /\ \A i \in 8 * c .. 8 * c + 3 : labels[i] = "closed"
                    /\ \A i \in 8 * c + 4 .. 8 * c + 7 : labels[i] = "open"

\* The labels of the notebooks: 384 of them, the last block open.
C5_Witness ==
    /\ LabelsBuilt
    /\ IsNotebookConfig
    /\ DOMAIN labels = 0 .. 383
    /\ labels[3] = "closed"
    /\ labels[4] = "open"
    /\ labels[8] = "closed"
    /\ labels[383] = "open"

\* C6: for valid parameters the chunks have length chunk_size * n_chunks and
\* element i is i div chunk_size: n_chunks runs of length chunk_size carrying
\* the chunk indices 0..n_chunks-1.
C6_ChunkIsIndexDivSize ==
    (ChunksBuilt /\ ValidChunkConfig) =>
        /\ DOMAIN chunks = 0 .. chunk_size * n_chunks - 1
        /\ \A i \in DOMAIN chunks : chunks[i] = i \div chunk_size
        /\ Image(chunks) = 0 .. n_chunks - 1
        /\ \A c \in 0 .. n_chunks - 1 :
              {i \in DOMAIN chunks : chunks[i] = c} =
                  c * chunk_size .. (c + 1) * chunk_size - 1

\* The chunks of the notebooks: 384 ids, 0 up to sample 63, 1 from sample 64.
C6_Witness ==
    /\ ChunksBuilt
    /\ IsNotebookConfig
    /\ DOMAIN chunks = 0 .. 383
    /\ chunks[63] = 0
    /\ chunks[64] = 1
    /\ chunks[383] = 5

\* Samples of one subject: one cycle of the block design, that is one block
\* of every condition.
SubjectLen == block_size * Len(condition_sequence)
SubjectOf(i) == i \div SubjectLen

\* C7: chunk boundaries split no subject.  A subject gives one closed and one
\* open block, 8 consecutive samples; with chunks of 64 samples (and whenever
\* the chunk length is a multiple of the subject length) all samples of a
\* subject carry the same chunk id.
C7_NoSubjectSplit ==
    /\ (ChunksBuilt /\ IsNotebookConfig) =>
          /\ SubjectLen = 8
          /\ DOMAIN chunks = DOMAIN labels
          /\ \A subj \in 0 .. NCycles - 1 :
                \A i \in 8 * subj .. 8 * subj + 7 :
                    chunks[i] = chunks[8 * subj]
    /\ (/\ ChunksBuilt
        /\ ValidLabelConfig
        /\ ValidChunkConfig
        /\ chunk_size % SubjectLen = 0) =>
          \A i, j \in DOMAIN labels \cap DOMAIN chunks :
              SubjectOf(i) = SubjectOf(j) => chunks[i] = chunks[j]

\* The notebooks' chunks: subject 7 (samples 56..63) ends chunk 0 and subject 8
\* (samples 64..71) opens chunk 1.
C7_Witness ==
    /\ ChunksBuilt
    /\ IsNotebookConfig
    /\ SubjectOf(63) = 7
    /\ SubjectOf(64) = 8
    /\ chunks[56] = 0
    /\ chunks[63] = 0
    /\ chunks[64] = 1
    /\ chunks[71] = 1

\* C15: generate_labels returns no label sequence when block_size, the
\* number of conditions or n_cycles is non-positive (it fails with a
\* ConfigurationError instead): the labels cell completes for valid
\* parameters only.
C15_NonPositiveRejected == LabelsBuilt => ValidLabelConfig

\* The samples of a set that carry label cond.
WithLabel(S, cond) == {i \in S : labels[i] = cond}

\* The samples with chunk id c.
SamplesOfChunk(c) == {i \in DOMAIN chunks : chunks[i] = c}

\* C17: leave-one-chunk-out cross-validation over the generated chunks has
\* exactly one fold per chunk id (6 folds for the 6 chunks of the
\* notebook); fold c + 1 tests on exactly the samples of chunk c, the run
\* c * chunk_size .. (c + 1) * chunk_size - 1, and trains on exactly the
\* samples of the other n_chunks - 1 chunks; every chunk is the test set of
\* exactly one fold.
C17_OneFoldPerChunk ==
    (lc_pc \in {"cv", "masks", "split"} /\ ValidChunkConfig) =>
        /\ Len(folds) = n_chunks
        /\ IsNotebookConfig => Len(folds) = 6
        /\ \A c \in 0 .. n_chunks - 1 :
              /\ folds[c + 1].test = SamplesOfChunk(c)
              /\ folds[c + 1].test =
                    c * chunk_size .. (c + 1) * chunk_size - 1
              /\ folds[c + 1].train =
                    UNION {SamplesOfChunk(d) : d \in (0 .. n_chunks - 1) \ {c}}
              /\ folds[c + 1].train \cap folds[c + 1].test = {}
              /\ folds[c + 1].train \cup folds[c + 1].test = DOMAIN chunks
              /\ Cardinality({k \in 1 .. Len(folds) :
                                 folds[k].test = SamplesOfChunk(c)}) = 1

\* The folds of the notebook: six of them, the second testing on samples
\* 64..127 and training on the 320 others.
C17_Witness ==
    /\ lc_pc = "cv"
    /\ IsNotebookConfig
    /\ Len(folds) = 6
    /\ folds[2].test = 64 .. 127
    /\ Cardinality(folds[2].train) = 320
    /\ 63 \in folds[2].train
    /\ 128 \in folds[2].train

\* The samples a boolean mask selects.
Selected(m) == {i \in DOMAIN m : m[i]}

\* y holds the labels of exactly the samples m selects, in their order: the
\* label of the k-th selected sample (counting from 0) is y[k].
LabelsOfSelected(y, m) ==
    /\ DOMAIN y = 0 .. Cardinality(Selected(m)) - 1
    /\ \A i \in Selected(m) :
          y[Cardinality({j \in Selected(m) : j < i})] = labels[i]

\* C18: the hold-out split puts exactly the samples with chunk id 5 in the
\* test set and exactly the others (for the chunks of the notebook: ids
\* 0..4, samples 0..319) in the training set; the two masks are
\* complementary, every sample is in exactly one of them, and y_train and
\* y_test are the labels of exactly the samples their mask selects.
C18_HoldOutSplit ==
    (lc_pc = "split") =>
        /\ DOMAIN mask_test = DOMAIN chunks
        /\ DOMAIN mask_train = DOMAIN chunks
        /\ Selected(mask_test) = SamplesOfChunk(TestChunk)
        /\ Selected(mask_train) = DOMAIN chunks \ SamplesOfChunk(TestChunk)
        /\ \A i \in DOMAIN chunks : mask_train[i] = ~mask_test[i]
        /\ Selected(mask_train) \cap Selected(mask_test) = {}
        /\ Selected(mask_train) \cup Selected(mask_test) = DOMAIN labels
        /\ LabelsOfSelected(y_train, mask_train)
        /\ LabelsOfSelected(y_test, mask_test)
        /\ IsNotebookConfig =>
              /\ Selected(mask_test) = 320 .. 383
              /\ Selected(mask_train) = 0 .. 319
              /\ Selected(mask_train) =
                    UNION {SamplesOfChunk(c) : c \in 0 .. 4}
              /\ \A k \in 0 .. 319 : y_train[k] = labels[k]
              /\ \A k \in 0 .. 63 : y_test[k] = labels[320 + k]

\* The split of the notebook: 320 training labels and 64 test labels, both
\* with closed and open blocks.
C18_Witness ==
    /\ lc_pc = "split"
    /\ IsNotebookConfig
    /\ DOMAIN y_train = 0 .. 319
    /\ DOMAIN y_test = 0 .. 63
    /\ mask_test[320]
    /\ mask_train[319]
    /\ y_test[0] = "closed"
    /\ y_test[63] = "open"
    /\ y_train[319] = "open"

\* The conditions of one cycle are pairwise different.
DistinctConditions ==
    \A a, b \in 1 .. Len(condition_sequence) :
        condition_sequence[a] = condition_sequence[b] => a = b

\* Every condition has the same number of samples in S.
Balanced(S) ==
    \A a, b \in Image(ToArray(condition_sequence)) :
        Cardinality(WithLabel(S, a)) = Cardinality(WithLabel(S, b))

\* C19: the generated chunks are class-balanced.  With blocks of 4 over
\* [closed, open] and chunks of 64 samples every chunk holds 32 closed and
\* 32 open samples, and so every leave-one-chunk-out test set (32 each) and
\* training set (160 each) is balanced; in general, whenever the chunk length
\* is a multiple of one cycle of pairwise different conditions, every chunk,
\* test set and training set holds every condition equally often.
C19_BalancedChunks ==
    /\ (lc_pc \in {"cv", "masks", "split"} /\ IsNotebookConfig) =>
          /\ \A c \in 0 .. NChunks - 1 :
                /\ Cardinality(WithLabel(SamplesOfChunk(c), "closed")) = 32
                /\ Cardinality(WithLabel(SamplesOfChunk(c), "open")) = 32
          /\ \A k \in 1 .. Len(folds) :
                /\ Cardinality(WithLabel(folds[k].test, "closed")) = 32
                /\ Cardinality(WithLabel(folds[k].test, "open")) = 32
                /\ Cardinality(WithLabel(folds[k].train, "closed")) = 160
                /\ Cardinality(WithLabel(folds[k].train, "open")) = 160
    /\ (/\ lc_pc \in {"cv", "masks", "split"}
        /\ ValidLabelConfig
        /\ ValidChunkConfig
        /\ DistinctConditions
        /\ chunk_size % SubjectLen = 0) =>
          /\ \A c \in 0 .. n_chunks - 1 : Balanced(SamplesOfChunk(c))
          /\ \A k \in 1 .. Len(folds) :
                Balanced(folds[k].test) /\ Balanced(folds[k].train)

\* The folds of the notebook are built: chunk 0 holds closed and open
\* samples, 32 of each.
C19_Witness ==
    /\ lc_pc = "cv"
    /\ IsNotebookConfig
    /\ Len(folds) = NChunks
    /\ Cardinality(WithLabel(SamplesOfChunk(0), "closed")) = 32
    /\ Cardinality(WithLabel(folds[1].test, "open")) = 32
    /\ Cardinality(WithLabel(folds[1].train, "closed")) = 160

\* ======================================================== train/test split
\* Size of the state of the generator standing for numpy's Mersenne Twister:
\* a linear congruential generator, deterministic in its state like the
\* original, and advanced by every draw.
RngMod == 2 ^ 6

\* seed(s): the state is a function of the seed alone.
Seeded(s) == s % RngMod

\* One step of the generator.
NextRng(s) == (13 * s + 7) % RngMod

\* A draw from 0..max out of the state s.
Draw(s, max) == (s \div 4) % (max + 1)

\* Swap that copies one way only: x[i] = x[j].
Swap_copy(x, i, j) == [x EXCEPT ![i] = x[j]]

\* x[i], x[j] = x[j], x[i]
Swap(x, i, j) == [x EXCEPT ![i] = x[j], ![j] = x[i]]

\* np.random.shuffle(x): for i in reversed(range(1, n)), swap x[i] with x[j],
\* j drawn from 0..i.  Yields the shuffled array and the generator's new state.
RECURSIVE Shuffle(_, _, _)
Shuffle(x, i, s) ==
    IF i < 1 THEN [arr |-> x, rng |-> s]
    ELSE LET s2 == NextRng(s)
         IN Shuffle(Swap(x, i, Draw(s2, i)), i - 1, s2)

\* N_80p = int(0.8 * N)
N_80p(n) == (4 * n) \div 5

\* indices[:cut]
SliceTo(x, cut) == [i \in 0 .. cut - 1 |-> x[i]]

\* indices[cut:]
SliceFrom(x, cut, n) == [i \in 0 .. n - cut - 1 |-> x[cut + i]]

\* data = np.rollaxis(img_slab.get_data(), 3, 0): entry i is volume i.
Data == [i \in 0 .. N - 1 |-> <<"volume", i>>]

\* Take reading the array in its own order: arr[:len(idx)]
Take_prefix(arr, idx) == [j \in DOMAIN idx |-> arr[j]]

\* arr[idx] for an array of indices: entry j is arr[idx[j]].
Take(arr, idx) == [j \in DOMAIN idx |-> arr[idx[j]]]

\* y == 'open', elementwise.
IsOpen(y) == [j \in DOMAIN y |-> y[j] = "open"]

\* to_categorical(y) for the two classes closed (0) and open (1): one row
\* per entry with a 1 in the column of its class.
to_categorical(y) == [j \in DOMAIN y |-> IF y[j] THEN <<0, 1>> ELSE <<1, 0>>]

\* The split cell: indices = np.arange(N); np.random.shuffle(indices); cut at
\* 80 %; X_train and X_test are the volumes at those indices.  It reads and
\* advances the global generator.
SplitCell(from, to) ==
    /\ sp_pc = from
    /\ LET sh == Shuffle([i \in 0 .. N - 1 |-> i], N - 1, rng)
       IN /\ indices' = sh.arr
          /\ rng' = sh.rng
          /\ indices_train' = SliceTo(sh.arr, N_80p(N))
          /\ indices_test' = SliceFrom(sh.arr, N_80p(N), N)
          /\ X_train' = Take(Data, SliceTo(sh.arr, N_80p(N)))
          /\ X_test' = Take(Data, SliceFrom(sh.arr, N_80p(N), N))
    /\ sp_pc' = to
    /\ UNCHANGED <<sl_vars, lc_vars, seed_arg, N, nn_y_train, nn_y_test>>

\* y_train = labels[indices_train] == 'open'; y_test likewise.
OutcomeCell2D ==
    /\ sp_pc = "split2d"
    /\ nn_y_train' = IsOpen(Take(labels, indices_train))
    /\ nn_y_test' = IsOpen(Take(labels, indices_test))
    /\ sp_pc' = "outcome2d"
    /\ UNCHANGED <<sl_vars, lc_vars, seed_arg, rng, N, indices, indices_train,
                   indices_test, X_train, X_test>>

\* y_train = to_categorical(y_train); y_test = to_categorical(y_test)
CategoricalCell2D ==
    /\ sp_pc = "outcome2d"
    /\ nn_y_train' = to_categorical(nn_y_train)
    /\ nn_y_test' = to_categorical(nn_y_test)
    /\ sp_pc' = "onehot2d"
    /\ UNCHANGED <<sl_vars, lc_vars, seed_arg, rng, N, indices, indices_train,
                   indices_test, X_train, X_test>>

\* The outcome cell of the 3D example: the labels at the indices, compared
\* with 'open' and passed through to_categorical in one cell.
OutcomeCell3D ==
    /\ sp_pc = "split3d"
    /\ nn_y_train' = to_categorical(IsOpen(Take(labels, indices_train)))
    /\ nn_y_test' = to_categorical(IsOpen(Take(labels, indices_test)))
    /\ sp_pc' = "outcome3d"
    /\ UNCHANGED <<sl_vars, lc_vars, seed_arg, rng, N, indices, indices_train,
                   indices_test, X_train, X_test>>

\* from numpy.random import seed; seed(0)
SeedCell ==
    /\ sp_pc = "start"
    /\ rng' = Seeded(seed_arg)
    /\ sp_pc' = "seeded"
    /\ UNCHANGED <<sl_vars, lc_vars, seed_arg, N, indices, indices_train,
                   indices_test, X_train, X_test, nn_y_train, nn_y_test>>

\* The split cell of the 2D example.
SplitCell2D == SplitCell("seeded", "split2d")

\* The split cell of the 3D example, run later in the same session.
SplitCell3D == SplitCell("onehot2d", "split3d")

\* The labels cell has run before the split cells; the data has one volume
\* per label (N = data.shape[0]).
LabelsReady ==
    /\ block_size \in 1 .. MaxBlock
    /\ condition_sequence \in CondSeqs
    /\ n_cycles \in 0 .. MaxCycles
    /\ block_size * Len(condition_sequence) * n_cycles = N
    /\ labels = generate_labels(block_size, condition_sequence, n_cycles)
    /\ chunk_size = 0
    /\ n_chunks = 0
    /\ chunks = <<>>
    /\ folds = <<>>
    /\ mask_test = <<>>
    /\ mask_train = <<>>
    /\ y_train = <<>>
    /\ y_test = <<>>
    /\ lc_pc = "labels"

InitSplit ==
    /\ SlIdle
    /\ seed_arg \in 0 .. MaxSeed
    /\ rng \in 0 .. RngMod - 1
    /\ N \in 0 .. MaxN
    /\ LabelsReady
    /\ indices = <<>>
    /\ indices_train = <<>>
    /\ indices_test = <<>>
    /\ X_train = <<>>
    /\ X_test = <<>>
    /\ nn_y_train = <<>>
    /\ nn_y_test = <<>>
    /\ sp_pc = "start"

NextSplit ==
    \/ SeedCell
    \/ SplitCell2D
    \/ OutcomeCell2D
    \/ CategoricalCell2D
    \/ SplitCell3D
    \/ OutcomeCell3D

SpecSplit == InitSplit /\ [][NextSplit]_vars

\* -------------------------------------------------------- split properties
\* A split cell has run.
SplitDone ==
    sp_pc \in {"split2d", "outcome2d", "onehot2d", "split3d", "outcome3d"}

\* floor(4/5 * n), stated without division.
FloorOfFraction(n) == CHOOSE k \in 0 .. n : 5 * k <= 4 * n /\ 4 * n < 5 * (k + 1)

\* C2: the split is a strict bipartition of the sample indices: train and
\* test are disjoint, together they are exactly 0..N-1, and the train set has
\* floor(0.8 * N) elements, the test set the remaining N - floor(0.8 * N).
C2_StrictBipartition ==
    SplitDone =>
        LET train == Image(indices_train)
            test == Image(indices_test)
            k == FloorOfFraction(N)
        IN /\ train \cap test = {}
           /\ train \cup test = 0 .. N - 1
           /\ Cardinality(train) = k
           /\ Cardinality(test) = N - k
           /\ DOMAIN indices_train = 0 .. k - 1
           /\ DOMAIN indices_test = 0 .. N - k - 1

\* A split of five or more samples whose shuffle moved sample 0 into the
\* test set.
C2_Witness ==
    /\ sp_pc = "split2d"
    /\ N >= 5
    /\ indices_train # <<>>
    /\ indices_test # <<>>
    /\ 0 \in Image(indices_test)
    /\ indices[0] # 0

\* C3: two split calls with the same (N, seed) give the same train set and
\* the same test set, whatever was drawn before: the split of the 3D example
\* equals the split of the 2D example it follows.
C3_SameSeedSameSplit ==
    [][(sp_pc = "onehot2d" /\ sp_pc' = "split3d") =>
          /\ Image(indices_train') = Image(indices_train)
          /\ Image(indices_test') = Image(indices_test)]_vars

\* C25: labels, chunks and the train/test partition are computed once and
\* never modified afterwards: no later step changes a label or a chunk id,
\* and once a split cell has run no step changes which samples are in the
\* train set and which in the test set.
C25_ComputedOnce ==
    [][/\ LabelsBuilt => labels' = labels
       /\ ChunksBuilt => (chunks' = chunks /\ labels' = labels)
       /\ SplitDone =>
             /\ Image(indices_train') = Image(indices_train)
             /\ Image(indices_test') = Image(indices_test)]_vars

\* y is the outcome of the samples idx, as the cell that ran last left it:
\* the truth value of "open", or its one-hot row after to_categorical.
OutcomeOf(y, idx) ==
    /\ DOMAIN y = DOMAIN idx
    /\ \A j \in DOMAIN idx :
          LET open == labels[idx[j]] = "open"
          IN IF sp_pc = "outcome2d"
             THEN y[j] = open
             ELSE y[j] = (IF open THEN <<0, 1>> ELSE <<1, 0>>)

\* X holds the volumes of the samples idx, position by position.
VolumesOf(X, idx) ==
    /\ DOMAIN X = DOMAIN idx
    /\ \A j \in DOMAIN idx : X[j] = <<"volume", idx[j]>>

====
